---- MODULE Spec2Model ----
(***************************************************************************)
(* The debate workflow of graph/debate_graph.py run by the compiled        *)
(* StateGraph: seven nodes (agents/nodes.py) over the DebateSession state  *)
(* (models/state.py), executed in supersteps.  A superstep runs every      *)
(* triggered node concurrently on the state as it was when the step began, *)
(* buffers the updates the nodes return, folds them through the reducers   *)
(* when all of them have returned, saves a checkpoint and triggers the     *)
(* nodes the edges name.                                                   *)
(*                                                                         *)
(* Abstractions: an LLM response is a token of a small set; a text is a    *)
(* string token; the uuid4 that add_messages gives a message without id is *)
(* a fresh number drawn from a counter.                                    *)
(***************************************************************************)
EXTENDS Naturals, Sequences, FiniteSets, TLC

VARIABLES
    max_rounds,     \* MAX_ROUNDS of this run
    session,        \* the DebateSession held by the state channels
    next_id,        \* source of fresh message ids
    active,         \* nodes triggered for the current superstep
    status,         \* per node: "idle", "running", "done", "failed", "cancelled"
    input,          \* per node: the state the running task was given
    writes,         \* per node: the update the task returned (buffered)
    sends,          \* per node: the nodes its edges triggered (buffered)
    done_order,     \* nodes of the current superstep in completion order
    run,            \* "running", "done", "failed", "cancelled", "crashed"
    checkpoint,     \* the checkpointer's record of the thread
    pending_writes, \* the writes the checkpointer keeps beside that record
    peer,           \* a second run_session call: its state, nodes to run,
                    \* id source, run status and checkpoint
    runs,           \* history: how often each node was started
    applied,        \* history: how often each node's update was folded
    evals,          \* history: should_continue calls of the current group
    eval_inputs,    \* history: the states those calls were given
    last_step,      \* history: the nodes folded by the last superstep
    last_order,     \* history: their completion order
    step_snapshot,  \* history: the state when the current superstep began
    outputs,        \* history: the update each node returned, per round
    resumed         \* history: the run was resumed from its checkpoint

vars == <<max_rounds, session, next_id, active, status, input, writes, sends,
          done_order, run, checkpoint, runs, applied, evals, eval_inputs,
          last_step, last_order, step_snapshot, outputs, resumed,
          pending_writes, peer>>

(***************************************************************************)
(* Bounds and constants                                                    *)
(***************************************************************************)
MaxRounds == 3

\* The largest MAX_ROUNDS tried with two runs side by side.
MaxRoundsTwo == 2

MAX_TIPS == 5

Topic == "topic"

UserPosition == "position"

Nodes ==
    {"intake", "fallacy_detector", "devil_advocate", "socratic_questioner",
     "argument_scorer", "increment_round", "final_coach"}

FanOut == {"devil_advocate", "socratic_questioner", "argument_scorer"}

Range(s) == {s[i] : i \in DOMAIN s}

(***************************************************************************)
(* models/state.py: the state and its reducers                             *)
(***************************************************************************)
Fields ==
    {"topic", "user_position", "round_number", "dialogue_history",
     "logical_fallacies_found", "argument_scores", "devil_advocate_args",
     "socratic_questions", "coaching_tips", "verdict"}

AppendFields ==
    {"logical_fallacies_found", "argument_scores", "devil_advocate_args",
     "socratic_questions", "coaching_tips"}

InitialSession ==
    [topic |-> Topic, user_position |-> UserPosition, round_number |-> 0,
     dialogue_history |-> <<>>, logical_fallacies_found |-> <<>>,
     argument_scores |-> <<>>, devil_advocate_args |-> <<>>,
     socratic_questions |-> <<>>, verdict |-> "", coaching_tips |-> <<>>]

NoUpdate == [f \in {} |-> 0]

\* Mutant: the new value replaces the list.
AppendReplacing(existing, new) == new

\* Mutant: the new elements put in front.
AppendInFront(existing, new) == new \o existing

\* _append(existing, new)
Append_(existing, new) == existing \o new

\* A message; id 0 stands for id None.
Message(role, tag, round, body) ==
    [role |-> role, tag |-> tag, round |-> round, body |-> body, id |-> 0]

HumanMessage(tag, round, body) == Message("human", tag, round, body)

AIMessage(tag, round, body) == Message("ai", tag, round, body)

\* add_messages gives every message without id a fresh one ...
RECURSIVE AssignIds(_, _)
AssignIds(msgs, nid) ==
    IF msgs = <<>> THEN <<>>
    ELSE IF Head(msgs).id = 0
         THEN <<[Head(msgs) EXCEPT !.id = nid]>> \o AssignIds(Tail(msgs), nid + 1)
         ELSE <<Head(msgs)>> \o AssignIds(Tail(msgs), nid)

FreshIds(msgs) == Cardinality({i \in DOMAIN msgs : msgs[i].id = 0})

\* Mutant: every message appended, whatever its id.
MergeAppending(left, right) == left \o right

\* ... and merges by id: a message whose id is in the list replaces that
\* entry in place, any other is appended.
RECURSIVE MergeById(_, _)
MergeById(left, right) ==
    IF right = <<>> THEN left
    ELSE LET m == Head(right)
             hit == {i \in DOMAIN left : left[i].id = m.id}
         IN  IF hit = {}
             THEN MergeById(Append(left, m), Tail(right))
             ELSE MergeById([i \in DOMAIN left |->
                                IF i \in hit THEN m ELSE left[i]], Tail(right))

add_messages(left, right, nid) == MergeById(left, AssignIds(right, nid))

\* One field of an update through the field's reducer (no annotation:
\* the value is replaced).
Reduce(f, old, new, nid) ==
    IF f = "dialogue_history" THEN add_messages(old, new, nid)
    ELSE IF f \in AppendFields THEN Append_(old, new)
    ELSE new

\* Mutant: fields the update lacks fall back to their initial values.
ApplyUpdateResetting(s, u, nid) ==
    [f \in Fields |->
        IF f \in DOMAIN u THEN Reduce(f, s[f], u[f], nid) ELSE InitialSession[f]]

\* The state after one node's update: fields the update lacks are kept.
ApplyUpdate(s, u, nid) ==
    [f \in Fields |-> IF f \in DOMAIN u THEN Reduce(f, s[f], u[f], nid) ELSE s[f]]

UpdateIds(u) ==
    IF "dialogue_history" \in DOMAIN u THEN FreshIds(u.dialogue_history) ELSE 0

(***************************************************************************)
(* agents/nodes.py: the seven nodes.  Each takes the state it was given    *)
(* and the response of its LLM call and returns the fields it updates.     *)
(***************************************************************************)
\* What an LLM call can return, per node that makes one.
Responses(n) ==
    CASE n = "fallacy_detector" -> {"not json", "[]", "[fallacy]", "[extreme]"}
      [] n = "devil_advocate" -> {"counter"}
      [] n = "socratic_questioner" -> {"1. question"}
      [] n = "argument_scorer" -> {"not json", "{score}"}
      [] n = "final_coach" -> {"", "report", "report with 6 tips"}
      [] OTHER -> {"none"}

\* The same, with a score card that carries a "round" key of its own.
AnyResponses(n) ==
    IF n = "argument_scorer"
    THEN Responses(n) \cup {"{score, round}"} ELSE Responses(n)

\* Mutant: no text refused.
IsJsonAlways(text) == TRUE

\* Whether json.loads accepts the text (else it raises JSONDecodeError).
IsJson(text) ==
    text \in {"[]", "[fallacy]", "[extreme]", "{score}", "{score, round}"}

\* _extract_json on a response of the fallacy detector that is JSON: the
\* list as the LLM wrote it, whatever its entries hold.
ExtractFallacies(text) ==
    CASE text = "[fallacy]" ->
            <<[fallacy_name |-> "strawman", severity |-> "high"]>>
      [] text = "[extreme]" ->
            <<[fallacy_name |-> "strawman", severity |-> "extreme"]>>
      [] OTHER -> <<>>

\* json.dumps of a fallacy list
DumpFallacies(fallacies) ==
    IF fallacies = <<>> THEN "[]"
    ELSE IF fallacies[1].severity = "extreme" THEN "[extreme]" ELSE "[fallacy]"

\* _extract_json on a response of the scorer that is JSON
ExtractScore(text) ==
    IF text = "{score, round}"
    THEN [total |-> 40, summary |-> "solid", round |-> 9]
    ELSE [total |-> 40, summary |-> "solid"]

DefaultScore == [total |-> 0, summary |-> "Could not parse score."]

\* json.dumps of a score
DumpScore(score) ==
    IF "round" \in DOMAIN score THEN "{score, round}"
    ELSE IF score = DefaultScore THEN "{default}" ELSE "{score}"

\* The numbered or dashed lines of the questioner's response
ParseQuestions(text) == IF text = "1. question" THEN <<"1. question">> ELSE <<>>

\* The lines of the report that start like a tip
TipLines(text) ==
    IF text = "report with 6 tips"
    THEN <<"tip 1", "tip 2", "tip 3", "tip 4", "tip 5", "tip 6">>
    ELSE <<>>

intake_node(state) ==
    [round_number |-> 1,
     dialogue_history |-> <<HumanMessage("position", 0, state.user_position)>>]

fallacy_detector_node(state, response) ==
    LET fallacies == IF IsJson(response) THEN ExtractFallacies(response) ELSE <<>>
    IN  [logical_fallacies_found |-> fallacies,
         dialogue_history |->
            <<AIMessage("Fallacy Analysis", 0, DumpFallacies(fallacies))>>]

\* Mutant: the counter-arguments entered twice.
devil_advocate_node_twice(state, response) ==
    [devil_advocate_args |-> <<response, response>>,
     dialogue_history |-> <<AIMessage("Counter-Arguments", 0, response)>>]

devil_advocate_node(state, response) ==
    [devil_advocate_args |-> <<response>>,
     dialogue_history |-> <<AIMessage("Counter-Arguments", 0, response)>>]

\* Mutant: the questions returned without a message.
socratic_questioner_node_silent(state, response) ==
    [socratic_questions |-> ParseQuestions(response), dialogue_history |-> <<>>]

socratic_questioner_node(state, response) ==
    [socratic_questions |-> ParseQuestions(response),
     dialogue_history |-> <<AIMessage("Socratic Questions", 0, response)>>]

\* Mutant: the scorer advancing the round counter as well.
argument_scorer_node_advancing(state, response) ==
    [argument_scores |->
        <<[round |-> state.round_number, total |-> 0, summary |-> "none"]>>,
     round_number |-> state.round_number + 1,
     dialogue_history |->
        <<AIMessage("Score Round", state.round_number, "{default}")>>]

argument_scorer_node(state, response) ==
    LET score == IF IsJson(response) THEN ExtractScore(response) ELSE DefaultScore
    IN  [argument_scores |->
            <<[round |-> IF "round" \in DOMAIN score
                         THEN score.round ELSE state.round_number,
               total |-> score.total, summary |-> score.summary]>>,
         dialogue_history |->
            <<AIMessage("Score Round", state.round_number, DumpScore(score))>>]

\* Mutant: the round counter advanced by two.
increment_round_node_by_two(state) ==
    LET new_round == state.round_number + 2
    IN  [round_number |-> new_round,
         dialogue_history |->
            <<HumanMessage("Refined position", new_round, state.user_position)>>]

increment_round_node(state) ==
    LET new_round == state.round_number + 1
    IN  [round_number |-> new_round,
         dialogue_history |->
            <<HumanMessage("Refined position", new_round, state.user_position)>>]

\* Mutant: every tip line kept.
final_coach_node_all_tips(state, response) ==
    [verdict |-> response,
     coaching_tips |-> TipLines(response),
     dialogue_history |-> <<AIMessage("Final Report", 0, response)>>]

final_coach_node(state, response) ==
    LET tips == TipLines(response)
    IN  [verdict |-> response,
         coaching_tips |-> SubSeq(tips, 1, IF Len(tips) < MAX_TIPS THEN Len(tips) ELSE MAX_TIPS),
         dialogue_history |-> <<AIMessage("Final Report", 0, response)>>]

\* The update node n returns for the state it was given and its response.
NodeUpdate(n, state, response) ==
    CASE n = "intake" -> intake_node(state)
      [] n = "fallacy_detector" -> fallacy_detector_node(state, response)
      [] n = "devil_advocate" -> devil_advocate_node(state, response)
      [] n = "socratic_questioner" -> socratic_questioner_node(state, response)
      [] n = "argument_scorer" -> argument_scorer_node(state, response)
      [] n = "increment_round" -> increment_round_node(state)
      [] n = "final_coach" -> final_coach_node(state, response)

\* The nodes whose task awaits an LLM call, which may raise.
CallsLLM(n) == n \notin {"intake", "increment_round"}

(***************************************************************************)
(* graph/debate_graph.py: the graph                                        *)
(***************************************************************************)
\* Mutant: the comparison strict, one round too many.
should_continue_strict(state, limit) ==
    IF state.round_number > limit THEN "finalize" ELSE "continue"

\* Mutant: the loop left one round early.
should_continue_early(state, limit) ==
    IF state.round_number + 1 >= limit THEN "finalize" ELSE "continue"

\* should_continue(state), with MAX_ROUNDS as configured for the run
should_continue(state, limit) ==
    IF state.round_number >= limit THEN "finalize" ELSE "continue"

\* Mutant: an unconditional edge out of argument_scorer as well.
EdgesFromScorer(n) ==
    CASE n = "intake" -> {"fallacy_detector"}
      [] n = "fallacy_detector" ->
            {"devil_advocate", "socratic_questioner", "argument_scorer"}
      [] n = "increment_round" -> {"fallacy_detector"}
      [] n = "argument_scorer" -> {"increment_round"}
      [] OTHER -> {}

\* Mutant: no edge from increment_round back to fallacy_detector.
EdgesWithoutLoop(n) ==
    CASE n = "intake" -> {"fallacy_detector"}
      [] n = "fallacy_detector" ->
            {"devil_advocate", "socratic_questioner", "argument_scorer"}
      [] OTHER -> {}

\* Mutant: increment_round leads straight to the fan-out group.
EdgesSkippingDetector(n) ==
    CASE n = "intake" -> {"fallacy_detector"}
      [] n \in {"fallacy_detector", "increment_round"} ->
            {"devil_advocate", "socratic_questioner", "argument_scorer"}
      [] OTHER -> {}

\* add_edge: the unconditional edges out of a node (START -> intake is the
\* initial trigger, final_coach -> END triggers nothing).
Edges(n) ==
    CASE n = "intake" -> {"fallacy_detector"}
      [] n = "fallacy_detector" ->
            {"devil_advocate", "socratic_questioner", "argument_scorer"}
      [] n = "increment_round" -> {"fallacy_detector"}
      [] OTHER -> {}

\* add_conditional_edges: the nodes that carry should_continue, and the
\* node each of its answers names.
ConditionalSources == {"devil_advocate", "socratic_questioner", "argument_scorer"}

BranchTarget(label) ==
    IF label = "continue" THEN "increment_round" ELSE "final_coach"

\* The state a node's conditional edge reads: the state the node was given
\* with the node's own update applied (the siblings' updates are buffered).
BranchRead(given, update, nid) == ApplyUpdate(given, update, nid)

\* The nodes a finished node triggers for the next superstep.
Triggers(n, given, update, limit, nid) ==
    Edges(n) \cup
    (IF n \in ConditionalSources
     THEN {BranchTarget(should_continue(BranchRead(given, update, nid), limit))}
     ELSE {})

\* The nodes in the order of their add_node calls.
DeclaredOrder ==
    <<"intake", "fallacy_detector", "devil_advocate", "socratic_questioner",
      "argument_scorer", "increment_round", "final_coach">>

\* Mutant: the updates folded in the order the nodes were declared.
FoldOrderDeclared(completion) ==
    SelectSeq(DeclaredOrder, LAMBDA n : n \in {completion[i] : i \in DOMAIN completion})

\* The order in which a superstep's updates are applied: by node name,
\* whatever the order of completion.
NameOrder ==
    <<"argument_scorer", "devil_advocate", "fallacy_detector", "final_coach",
      "increment_round", "intake", "socratic_questioner">>

\* Mutant: the updates applied in the order the tasks completed.
FoldOrderByCompletion(completion) == completion

FoldOrder(completion) ==
    SelectSeq(NameOrder, LAMBDA n : n \in Range(completion))

\* The updates w of the nodes in order, applied one after the other.
RECURSIVE FoldUpdates(_, _, _, _)
FoldUpdates(s, w, order, nid) ==
    IF order = <<>> THEN s
    ELSE FoldUpdates(ApplyUpdate(s, w[Head(order)], nid), w, Tail(order),
                     nid + UpdateIds(w[Head(order)]))

RECURSIVE FoldIds(_, _)
FoldIds(w, order) ==
    IF order = <<>> THEN 0
    ELSE UpdateIds(w[Head(order)]) + FoldIds(w, Tail(order))

\* The state after a superstep whose nodes completed in the given order.
FoldStep(s, w, completion, nid) == FoldUpdates(s, w, FoldOrder(completion), nid)

\* The state channels while a superstep is under way, after a task has
\* returned update u: the update is buffered, the channels are untouched.
\* Mutant: a task's update written to the channels as soon as it returns.
AfterTaskEager(s, u, nid) == ApplyUpdate(s, u, nid)

AfterTask(s, u, nid) == s

\* Mutant: no barrier, the superstep ends with the first task that returns.
StepCompleteFirst(nodes, st) == \E n \in nodes : st[n] = "done"

\* Mutant: a task that raised counts as finished.
StepCompleteOrFailed(nodes, st) ==
    /\ \A n \in nodes : st[n] \in {"done", "failed"}
    /\ \E n \in nodes : st[n] = "done"

\* A superstep is over when every one of its tasks has returned.
StepComplete(nodes, st) == \A n \in nodes : st[n] = "done"

\* The nodes of the next superstep: one task per triggered node, however
\* many edges triggered it.
NextTasks(nodes, sent) == UNION {sent[n] : n \in nodes}

\* Mutant: the checkpoint taken before the superstep's updates are applied.
SaveCheckpointStale(s, next) == [session |-> session, next |-> next]

\* Mutant: the checkpoint's cursor left on the superstep just completed.
SaveCheckpointOldCursor(s, next) == [session |-> s, next |-> active]

\* MemorySaver: the record put after a superstep.
SaveCheckpoint(s, next) == [session |-> s, next |-> next]

\* Mutant: a returned task's update merged into the saved state.
PutWritesIntoState(c, p, n, u, nid) ==
    [checkpoint |-> [c EXCEPT !.session = ApplyUpdate(c.session, u, nid)],
     pending |-> [p EXCEPT ![n] = u]]

\* MemorySaver: the writes of a task that has returned are put beside the
\* record of the superstep's start, whose state they leave alone.
PutWrites(c, p, n, u, nid) ==
    [checkpoint |-> c, pending |-> [p EXCEPT ![n] = u]]

\* Mutant: one MemorySaver for both runs; the thread id being the same,
\* a put replaces the record of both.
PutByPeerShared(mine, theirs, c) == [mine |-> c, theirs |-> c]

\* MemorySaver.put by the second run: every run_session call compiles its
\* own graph with its own MemorySaver, so the put reaches that saver only.
PutByPeer(mine, theirs, c) == [mine |-> mine, theirs |-> c]

(***************************************************************************)
(* main.py run_session and the run of the compiled graph                   *)
(***************************************************************************)
Idle == [n \in Nodes |-> "idle"]

NoInputs == [n \in Nodes |-> InitialSession]

NoWrites == [n \in Nodes |-> NoUpdate]

NoSends == [n \in Nodes |-> {}]

Zero == [n \in Nodes |-> 0]

\* Task outputs are deterministic: a node run again on the state of the
\* same round returns what it returned before.
Repeatable(n, round, update) ==
    \A o \in outputs : (o.node = n /\ o.round = round) => o.update = update

\* The second run_session call, on another topic.
PeerSession ==
    [InitialSession EXCEPT !.topic = "peer topic",
                           !.user_position = "peer position"]

PeerInit ==
    [session |-> PeerSession, active |-> {"intake"}, next_id |-> 1,
     run |-> "running", checkpoint |-> SaveCheckpoint(PeerSession, {"intake"})]

\* What the second run's model calls answer.
PeerResponse(n) ==
    CASE n = "fallacy_detector" -> "[fallacy]"
      [] n = "devil_advocate" -> "counter"
      [] n = "socratic_questioner" -> "1. question"
      [] n = "argument_scorer" -> "{score}"
      [] n = "final_coach" -> "report"
      [] OTHER -> "none"

\* One superstep of run p on its own: its tasks are given p's state, their
\* updates are folded, the next nodes triggered, the checkpoint saved.
SuperStep(p, limit) ==
    LET tasks == SelectSeq(DeclaredOrder, LAMBDA n : n \in p.active)
        w == [n \in Nodes |->
                IF n \in p.active
                THEN NodeUpdate(n, p.session, PeerResponse(n)) ELSE NoUpdate]
        sent == [n \in Nodes |->
                   IF n \in p.active
                   THEN Triggers(n, p.session, w[n], limit, p.next_id) ELSE {}]
        folded == FoldStep(p.session, w, tasks, p.next_id)
        next == NextTasks(p.active, sent)
    IN  [session |-> folded, active |-> next,
         next_id |-> p.next_id + FoldIds(w, tasks),
         run |-> IF next = {} THEN "done" ELSE "running",
         checkpoint |-> SaveCheckpoint(folded, next)]

Init ==
    /\ max_rounds \in 1..MaxRounds
    /\ session = InitialSession
    /\ next_id = 1
    /\ active = {"intake"}
    /\ status = Idle
    /\ input = NoInputs
    /\ writes = NoWrites
    /\ sends = NoSends
    /\ done_order = <<>>
    /\ run = "running"
    /\ checkpoint = SaveCheckpoint(InitialSession, {"intake"})
    /\ runs = Zero
    /\ applied = Zero
    /\ evals = 0
    /\ eval_inputs = {}
    /\ last_step = {}
    /\ last_order = <<>>
    /\ step_snapshot = InitialSession
    /\ outputs = {}
    /\ resumed = FALSE
    /\ pending_writes = NoWrites
    /\ peer = PeerInit

\* A triggered node's task starts: it is handed the state of the channels.
StartTask(n) ==
    /\ run = "running"
    /\ n \in active
    /\ status[n] = "idle"
    /\ status' = [status EXCEPT ![n] = "running"]
    /\ input' = [input EXCEPT ![n] = session]
    /\ runs' = [runs EXCEPT ![n] = @ + 1]
    /\ UNCHANGED <<max_rounds, session, next_id, active, writes, sends,
                   done_order, run, checkpoint, applied, evals, eval_inputs,
                   last_step, last_order, step_snapshot, outputs, resumed,
                   pending_writes, peer>>

\* The task returns: its update and the triggers of its edges are buffered;
\* a node that carries the conditional edge has should_continue called.
Returns(n, response) ==
    /\ run = "running"
    /\ status[n] = "running"
    /\ LET update == NodeUpdate(n, input[n], response)
           round == input[n].round_number
       IN  /\ Repeatable(n, round, update)
           /\ outputs' = outputs \cup
                  {[node |-> n, round |-> round, update |-> update]}
           /\ writes' = [writes EXCEPT ![n] = update]
           /\ sends' = [sends EXCEPT ![n] =
                          Triggers(n, input[n], update, max_rounds, next_id)]
           /\ session' = AfterTask(session, update, next_id)
           /\ checkpoint' =
                  PutWrites(checkpoint, pending_writes, n, update, next_id).checkpoint
           /\ pending_writes' =
                  PutWrites(checkpoint, pending_writes, n, update, next_id).pending
           /\ eval_inputs' =
                  IF n \in ConditionalSources
                  THEN eval_inputs \cup {BranchRead(input[n], update, next_id)}
                  ELSE eval_inputs
    /\ evals' = IF n \in ConditionalSources THEN evals + 1 ELSE evals
    /\ status' = [status EXCEPT ![n] = "done"]
    /\ done_order' = Append(done_order, n)
    /\ UNCHANGED <<max_rounds, next_id, active, input, run, runs,
                   applied, last_step, last_order, step_snapshot, resumed,
                   peer>>

CompleteTask(n) == \E response \in Responses(n) : Returns(n, response)

\* The same, the scorer's call free to put a "round" key in its score card.
CompleteTaskAny(n) == \E response \in AnyResponses(n) : Returns(n, response)

\* The task raises (its LLM call fails).
FailTask(n) ==
    /\ run = "running"
    /\ status[n] = "running"
    /\ CallsLLM(n)
    /\ status' = [status EXCEPT ![n] = "failed"]
    /\ UNCHANGED <<max_rounds, session, next_id, active, input, writes, sends,
                   done_order, run, checkpoint, runs, applied, evals,
                   eval_inputs, last_step, last_order, step_snapshot, outputs, resumed,
                   pending_writes, peer>>

\* Every task of the superstep has returned: the updates are folded into
\* the state, the next nodes are triggered, the checkpoint is saved.
EndStep ==
    /\ run = "running"
    /\ done_order # <<>>
    /\ StepComplete(active, status)
    /\ LET folded == Range(done_order)
           conditional == folded \cap ConditionalSources # {}
       IN  /\ session' = FoldStep(session, writes, done_order, next_id)
           /\ next_id' = next_id + FoldIds(writes, done_order)
           /\ active' = NextTasks(folded, sends)
           /\ applied' = [n \in Nodes |->
                            IF n \in folded THEN applied[n] + 1 ELSE applied[n]]
           /\ last_step' = folded
           /\ evals' = IF conditional THEN evals ELSE 0
           /\ eval_inputs' = IF conditional THEN eval_inputs ELSE {}
    /\ last_order' = done_order
    /\ step_snapshot' = session'
    /\ checkpoint' = SaveCheckpoint(session', active')
    /\ run' = IF active' = {} THEN "done" ELSE "running"
    /\ status' = Idle
    /\ input' = NoInputs
    /\ writes' = NoWrites
    /\ sends' = NoSends
    /\ done_order' = <<>>
    /\ pending_writes' = NoWrites
    /\ UNCHANGED <<max_rounds, runs, outputs, resumed, peer>>

\* A task of the superstep has raised: the exception leaves astream and
\* run_session, nothing of the superstep is applied.
AbortStep ==
    /\ run = "running"
    /\ \E n \in active : status[n] = "failed"
    /\ run' = "failed"
    /\ UNCHANGED <<max_rounds, session, next_id, active, status, input, writes,
                   sends, done_order, checkpoint, runs, applied, evals,
                   eval_inputs, last_step, last_order, step_snapshot, outputs, resumed,
                   pending_writes, peer>>

Next ==
    \/ \E n \in Nodes : StartTask(n)
    \/ \E n \in Nodes : CompleteTask(n)
    \/ \E n \in Nodes : FailTask(n)
    \/ EndStep
    \/ AbortStep

Spec == Init /\ [][Next]_vars

(***************************************************************************)
(* Crash and resume.  run_session never resumes a thread; the resume of    *)
(* the specification loads the checkpoint and continues at its cursor.     *)
(***************************************************************************)
\* The process dies right after a checkpoint was saved: what it held in
\* memory is gone, the checkpoint stays.
Crash ==
    /\ run = "running"
    /\ \A n \in Nodes : status[n] = "idle"
    /\ run' = "crashed"
    /\ session' = InitialSession
    /\ active' = {}
    /\ UNCHANGED <<max_rounds, next_id, status, input, writes, sends,
                   done_order, checkpoint, runs, applied, evals, eval_inputs,
                   last_step, last_order, step_snapshot, outputs, resumed,
                   pending_writes, peer>>

\* The state and the nodes to run, as the checkpoint gives them.
LoadCheckpoint(c) == [session |-> c.session, active |-> c.next]

Resume ==
    /\ run = "crashed"
    /\ session' = LoadCheckpoint(checkpoint).session
    /\ active' = LoadCheckpoint(checkpoint).active
    /\ run' = "running"
    /\ resumed' = TRUE
    /\ UNCHANGED <<max_rounds, next_id, status, input, writes, sends,
                   done_order, checkpoint, runs, applied, evals, eval_inputs,
                   last_step, last_order, step_snapshot, outputs,
                   pending_writes, peer>>

NextResume ==
    \/ \E n \in Nodes : StartTask(n)
    \/ \E n \in Nodes : CompleteTask(n)
    \/ EndStep
    \/ Crash
    \/ Resume

SpecResume == Init /\ [][NextResume]_vars

\* The caller cancels the run while tasks are in flight: they are
\* abandoned, no further superstep is scheduled, nothing is folded.
Cancel ==
    /\ run = "running"
    /\ \E n \in active : status[n] = "running"
    /\ run' = "cancelled"
    /\ status' = [n \in Nodes |->
                    IF status[n] = "running" THEN "cancelled" ELSE status[n]]
    /\ UNCHANGED <<max_rounds, session, next_id, active, input, writes, sends,
                   done_order, checkpoint, runs, applied, evals, eval_inputs,
                   last_step, last_order, step_snapshot, outputs, resumed,
                   pending_writes, peer>>

NextCancel ==
    \/ \E n \in Nodes : StartTask(n)
    \/ \E n \in Nodes : CompleteTask(n)
    \/ \E n \in Nodes : FailTask(n)
    \/ EndStep
    \/ AbortStep
    \/ Cancel

SpecCancel == Init /\ [][NextCancel]_vars

\* A superstep of the second run, between any two steps of the first.
PeerStep ==
    /\ peer.run = "running"
    /\ LET after == SuperStep(peer, max_rounds)
           put == PutByPeer(checkpoint, peer.checkpoint, after.checkpoint)
       IN  /\ peer' = [after EXCEPT !.checkpoint = put.theirs]
           /\ checkpoint' = put.mine
    /\ UNCHANGED <<max_rounds, session, next_id, active, status, input, writes,
                   sends, done_order, run, runs, applied, evals, eval_inputs,
                   last_step, last_order, step_snapshot, outputs, resumed,
                   pending_writes>>

InitTwo == Init /\ max_rounds <= MaxRoundsTwo

NextTwo ==
    \/ \E n \in Nodes : StartTask(n)
    \/ \E n \in Nodes : CompleteTask(n)
    \/ EndStep
    \/ PeerStep

SpecTwo == InitTwo /\ [][NextTwo]_vars

\* Runs in which every task returns and the scorer's response is any of
\* AnyResponses.
NextAny ==
    \/ \E n \in Nodes : StartTask(n)
    \/ \E n \in Nodes : CompleteTaskAny(n)
    \/ EndStep

SpecAny == InitTwo /\ [][NextAny]_vars

\* A run in which every task returns: the event loop runs every task that
\* is ready and the engine ends every superstep whose tasks have returned.
NextLive ==
    \/ \E n \in Nodes : StartTask(n)
    \/ \E n \in Nodes : CompleteTask(n)
    \/ EndStep

\* The step that ends a superstep: EndStep's guard, and the list of
\* returned tasks emptied, which no other step does.
StepEnds ==
    /\ run = "running"
    /\ done_order # <<>>
    /\ StepComplete(active, status)
    /\ done_order' = <<>>

SpecLive ==
    /\ Init /\ [][NextLive]_vars
    /\ WF_vars(\E n \in Nodes : StartTask(n))
    /\ WF_vars(\E n \in Nodes : CompleteTask(n))
    /\ WF_done_order(StepEnds)

(***************************************************************************)
(* Properties                                                              *)
(***************************************************************************)
Round == session.round_number

\* The superstep that ends in this step folded exactly node n.
Folds(n) == applied'[n] = applied[n] + 1 /\ last_step' = {n}

Successors == {"increment_round", "final_coach"}

\* C1: round_number is 0 until intake's update is applied, intake sets it
\* to 1, afterwards only increment_round changes it, by exactly +1; it never
\* decreases and never exceeds max_rounds.
C1_RoundNumber ==
    /\ [](/\ (applied["intake"] = 0 => Round = 0)
          /\ (applied["intake"] > 0 => Round >= 1)
          /\ Round <= max_rounds)
    /\ [][Round' # Round =>
            \/ Folds("intake") /\ Round = 0 /\ Round' = 1
            \/ Folds("increment_round") /\ Round' = Round + 1]_vars

C1_Witness ==
    /\ max_rounds = 3
    /\ Round = 3
    /\ applied["increment_round"] = 2
    /\ last_step = {"increment_round"}

\* C2: once a fan-out group is folded with round_number = max_rounds the
\* next node is final_coach, increment_round does not run, and the run ends
\* with round_number = max_rounds.
C2_FinalizeAtLimit ==
    /\ (last_step = FanOut /\ Round = max_rounds) =>
          /\ active = {"final_coach"}
          /\ status["increment_round"] = "idle"
          /\ runs["increment_round"] = max_rounds - 1
    /\ run = "done" => (Round = max_rounds /\ last_step = {"final_coach"})

C2_Witness ==
    /\ max_rounds = 1
    /\ run = "done"
    /\ Round = 1
    /\ session.verdict # ""
    /\ runs["increment_round"] = 0

\* C3: for every folded fan-out group should_continue has been called
\* exactly once, on the state that results from folding the three updates.
C3_SingleEvaluation ==
    last_step = FanOut => (evals = 1 /\ eval_inputs = {session})

\* C4: a completed run of R rounds has run intake and final_coach once,
\* increment_round R - 1 times and each of the four analysis nodes R times;
\* after each fan-out group exactly one successor is scheduled, and the
\* successors never run more often than groups were folded.
C4_RunCounts ==
    /\ run = "done" =>
          /\ runs["intake"] = 1
          /\ runs["final_coach"] = 1
          /\ runs["increment_round"] = max_rounds - 1
          /\ \A n \in FanOut \cup {"fallacy_detector"} : runs[n] = max_rounds
    /\ last_step = FanOut =>
          (Cardinality(active) = 1 /\ active \subseteq Successors)
    /\ \A m \in FanOut :
          runs["increment_round"] + runs["final_coach"] <= applied[m]

C4_Witness ==
    /\ max_rounds = 3
    /\ run = "done"
    /\ runs["increment_round"] = 2
    /\ runs["argument_scorer"] = 3

\* C5: increment_round and final_coach start only when the three fan-out
\* members of the round have all returned and had their updates folded.
C5_Barrier ==
    \A n \in Successors :
        status[n] # "idle" =>
            \A m \in FanOut :
                /\ status[m] = "idle"
                /\ applied[m] = Round
                /\ runs[m] = Round

C5_Witness ==
    /\ status["increment_round"] = "running"
    /\ last_order = <<"socratic_questioner", "argument_scorer", "devil_advocate">>

\* C6: every fan-out member is given the state as it was when
\* fallacy_detector's update had been applied, so no member sees a field
\* written by a sibling of the same round.
C6_SnapshotIsolation ==
    \A n \in FanOut :
        status[n] \in {"running", "done"} =>
            /\ last_step = {"fallacy_detector"}
            /\ input[n] = step_snapshot
            /\ \A m \in FanOut :
                  status[m] \in {"running", "done"} => input[m] = input[n]

C6_Witness ==
    /\ done_order = <<"argument_scorer", "socratic_questioner">>
    /\ status["devil_advocate"] = "running"
    /\ Round = 2

GroupOrders == {o \in [1..3 -> FanOut] : Range(o) = FanOut}

\* C7: the fold of a fan-out group gives the same state for every order
\* in which the three tasks can have completed.
C7_FoldDeterministic ==
    [][(last_step' = FanOut /\ applied' # applied) =>
          \A o \in GroupOrders :
              session' = FoldStep(session, writes, o, next_id)]_vars

C7_Witness ==
    /\ last_step = FanOut
    /\ last_order = <<"socratic_questioner", "devil_advocate", "argument_scorer">>
    /\ Len(session.dialogue_history) = 5

FailedMember == \E m \in FanOut : status[m] = "failed"

\* C8: when a member of a fan-out group has failed, no update of the group
\* is applied (the state stays the one the group started from), no
\* successor is scheduled or run, and the run ends failed.
C8_FailedGroup ==
    /\ [](FailedMember =>
             /\ session = step_snapshot
             /\ checkpoint.session = step_snapshot
             /\ active = FanOut
             /\ run \in {"running", "failed"}
             /\ \A n \in Successors : status[n] = "idle"
             /\ \A m \in FanOut : applied[m] = Round - 1)
    /\ [][FailedMember =>
             /\ session' = session
             /\ applied' = applied
             /\ active' = active
             /\ run' \in {"running", "failed"}]_vars

C8_Witness ==
    /\ run = "failed"
    /\ status["devil_advocate"] = "done"
    /\ status["socratic_questioner"] = "done"
    /\ status["argument_scorer"] = "failed"
    /\ Round = 2

\* C9: the checkpoint holds the state after the last completed superstep
\* and the nodes to run next, in every state in which a node of the next
\* superstep can start or has started.
C9_Checkpoint ==
    /\ checkpoint.session = step_snapshot
    /\ checkpoint.next = active
    /\ (\A n \in Nodes : status[n] = "idle") => checkpoint.session = session

C9_Witness ==
    /\ last_step = FanOut
    /\ checkpoint.next = {"increment_round"}
    /\ Len(checkpoint.session.dialogue_history) = 5
    /\ status["increment_round"] = "running"

\* The update node n returned in round k.
Output(n, k) == (CHOOSE o \in outputs : o.node = n /\ o.round = k).update

\* The updates of a run of R rounds that is never interrupted, in the
\* order in which they are applied, from round k on.
RECURSIVE UpdatesFrom(_, _)
UpdatesFrom(k, R) ==
    <<Output("fallacy_detector", k)>> \o
    [i \in 1..3 |->
        Output(FoldOrder(<<"devil_advocate", "socratic_questioner",
                           "argument_scorer">>)[i], k)] \o
    (IF should_continue([round_number |-> k], R) = "continue"
     THEN <<Output("increment_round", k)>> \o UpdatesFrom(k + 1, R)
     ELSE <<Output("final_coach", k)>>)

RECURSIVE ApplyAll(_, _, _)
ApplyAll(s, updates, nid) ==
    IF updates = <<>> THEN s
    ELSE ApplyAll(ApplyUpdate(s, Head(updates), nid), Tail(updates),
                  nid + UpdateIds(Head(updates)))

UninterruptedRun(R) ==
    ApplyAll(InitialSession, <<Output("intake", 0)>> \o UpdatesFrom(1, R), 1)

C11_Verdict ==
    /\ []((session.verdict # "") <=> (applied["final_coach"] > 0))
    /\ [][session'.verdict # session.verdict =>
            (Folds("final_coach") /\ session.verdict = "")]_vars

IsPrefix(a, b) == Len(a) <= Len(b) /\ SubSeq(b, 1, Len(a)) = a

SequenceFields == AppendFields \cup {"dialogue_history"}

\* C12: each of the six list fields only grows at its end: its value
\* before a step is a prefix of its value after the step.
C12_AppendOnly ==
    [][\A f \in SequenceFields : IsPrefix(session[f], session'[f])]_vars

C12_Witness ==
    /\ Len(session.dialogue_history) = 10
    /\ Len(session.argument_scores) = 2
    /\ Len(session.logical_fallacies_found) = 2
    /\ Len(session.devil_advocate_args) = 2
    /\ Len(session.socratic_questions) = 2

\* The severities the fallacy detector's prompt allows.
ValidSeverities == {"high", "medium", "low"}

\* An update the state schema does not admit.
Malformed(u) ==
    \/ ~(DOMAIN u \subseteq Fields)
    \/ /\ "logical_fallacies_found" \in DOMAIN u
       /\ \E i \in DOMAIN u.logical_fallacies_found :
             u.logical_fallacies_found[i].severity \notin ValidSeverities

\* C13: an update that names an undeclared field or carries a fallacy
\* report of invalid severity is refused: the state keeps its value, no
\* such report ever enters it, and the run does not go on.
C13_MalformedUpdate ==
    /\ [](\A i \in DOMAIN session.logical_fallacies_found :
             session.logical_fallacies_found[i].severity \in ValidSeverities)
    /\ [][(\E n \in Nodes : status[n] = "done" /\ Malformed(writes[n])) =>
             (session' = session /\ active' = active /\ run' # "done")]_vars

\* The messages of an update once add_messages has been applied to them:
\* it sets the id of a message that has none on the message itself.
Stamped(msgs, nid) == AssignIds(msgs, nid)

\* C14: merging the same dialogue_history update a second time changes
\* nothing, and a message resubmitted under an id the history holds
\* replaces that entry where it stands.
C14_Idempotent ==
    /\ \A n \in Nodes :
          status[n] = "done" =>
             LET h == session.dialogue_history
                 u == writes[n].dialogue_history
                 once == add_messages(h, u, next_id)
                 again == add_messages(once, Stamped(u, next_id),
                                       next_id + FreshIds(u))
             IN  again = once /\ Len(once) = Len(h) + Len(u)
    /\ \A i \in DOMAIN session.dialogue_history :
          LET h == session.dialogue_history
              m == [h[i] EXCEPT !.body = "edited"]
          IN  add_messages(h, <<m>>, next_id) = [h EXCEPT ![i] = m]

C14_Witness ==
    /\ status["increment_round"] = "done"
    /\ Len(session.dialogue_history) = 5

\* The lists at hand for field f: its value and the buffered updates of it.
Lists(f) ==
    {session[f], <<>>} \cup
    {writes[n][f] : n \in {m \in Nodes : f \in DOMAIN writes[m]}}

\* C15: appending U1 and then U2 gives what appending the one update
\* U1 followed by U2 gives, for every append-reduced field.
C15_AppendCombines ==
    \A f \in AppendFields :
        \A u1 \in Lists(f) : \A u2 \in Lists(f) :
            Append_(Append_(session[f], u1), u2) = Append_(session[f], u1 \o u2)

C15_Witness ==
    /\ status["argument_scorer"] = "done"
    /\ Len(session.argument_scores) = 1
    /\ writes["argument_scorer"].argument_scores # session.argument_scores

\* C16: for every limit, a run in which every task returns reaches the
\* done state with final_coach's update applied, and the loop is taken
\* fewer times than the limit.
C16_Terminates ==
    /\ <>(run = "done" /\ applied["final_coach"] = 1)
    /\ [](applied["increment_round"] < max_rounds)

C16_Witness ==
    /\ run = "done"
    /\ applied["final_coach"] = 1
    /\ applied["increment_round"] = 2

Tags(msgs) == [i \in DOMAIN msgs |-> msgs[i].tag]

\* The messages the step adds to dialogue_history.
Gained ==
    SubSeq(session'.dialogue_history,
           Len(session.dialogue_history) + 1, Len(session'.dialogue_history))

FoldsGroup == last_step' = FanOut /\ applied' # applied

\* C19 as stated: the group is folded devil_advocate, socratic_questioner,
\* argument_scorer, so each round adds Counter-Arguments, Socratic
\* Questions, Score in that order.
C19_DeclaredOrder ==
    [][FoldsGroup =>
          /\ session' = FoldUpdates(session, writes,
                           <<"devil_advocate", "socratic_questioner",
                             "argument_scorer">>, next_id)
          /\ Tags(Gained) =
                <<"Counter-Arguments", "Socratic Questions", "Score Round">>]_vars

\* C19, amended: the group is folded in the order of the node names,
\* argument_scorer, devil_advocate, socratic_questioner, so each round adds
\* Score, Counter-Arguments, Socratic Questions in that order, whatever the
\* completion order.
C19_NameOrder ==
    [][FoldsGroup =>
          /\ session' = FoldUpdates(session, writes,
                           <<"argument_scorer", "devil_advocate",
                             "socratic_questioner">>, next_id)
          /\ Tags(Gained) =
                <<"Score Round", "Counter-Arguments", "Socratic Questions">>]_vars

C19_Witness ==
    /\ last_step = FanOut
    /\ last_order = <<"devil_advocate", "socratic_questioner", "argument_scorer">>
    /\ Round = 2
    /\ LET h == session.dialogue_history
       IN  Tags(SubSeq(h, Len(h) - 2, Len(h))) =
              <<"Score Round", "Counter-Arguments", "Socratic Questions">>

\* C20: intake is the first step; fallacy_detector's step has ended when a
\* fan-out member starts; increment_round comes only directly after a
\* group and fallacy_detector directly after it; final_coach is the last
\* step and nothing runs after it.
C20_GraphOrder ==
    /\ [][last_step' # last_step \/ applied' # applied =>
            \/ last_step = {} /\ last_step' = {"intake"}
            \/ last_step = {"intake"} /\ last_step' = {"fallacy_detector"}
            \/ last_step = {"fallacy_detector"} /\ last_step' = FanOut
            \/ last_step = FanOut /\ last_step' = {"increment_round"}
            \/ last_step = FanOut /\ last_step' = {"final_coach"}
            \/ last_step = {"increment_round"} /\ last_step' = {"fallacy_detector"}]_vars
    /\ [](\A n \in FanOut :
             status[n] # "idle" =>
                /\ last_step = {"fallacy_detector"}
                /\ status["fallacy_detector"] = "idle"
                /\ applied["fallacy_detector"] = Round)
    /\ [](status["increment_round"] # "idle" => last_step = FanOut)
    /\ [](status["fallacy_detector"] # "idle" =>
             last_step \in {{"intake"}, {"increment_round"}})
    /\ [](applied["intake"] = 0 =>
             \A n \in Nodes \ {"intake"} : status[n] = "idle" /\ applied[n] = 0)
    /\ [](applied["final_coach"] > 0 =>
             /\ last_step = {"final_coach"}
             /\ run = "done"
             /\ \A n \in Nodes : status[n] = "idle")

C20_Witness ==
    /\ last_step = {"increment_round"}
    /\ status["fallacy_detector"] = "running"
    /\ Round = 3

Count(msgs, tag) == Cardinality({i \in DOMAIN msgs : msgs[i].tag = tag})

\* The fan-out members with a write kept beside the checkpoint.
PendingMembers == {n \in FanOut : pending_writes[n] # NoUpdate}

\* C18: the saved state holds the updates of all three members of a round
\* or of none, also when a member has failed or the run was cancelled
\* with members in flight; what returned members wrote is kept beside it,
\* and the checkpoint stays the one of the last folded step.
C18_NoPartialGroup ==
    LET saved == checkpoint.session
        h == saved.dialogue_history
        groups == Len(saved.argument_scores)
    IN  /\ Len(saved.devil_advocate_args) = groups
        /\ Count(h, "Counter-Arguments") = groups
        /\ Count(h, "Socratic Questions") = groups
        /\ Count(h, "Score Round") = groups
        /\ run \in {"failed", "cancelled"} =>
              checkpoint = SaveCheckpoint(step_snapshot, active)

C18_Witness ==
    /\ run = "cancelled"
    /\ PendingMembers = {"devil_advocate", "argument_scorer"}
    /\ status["socratic_questioner"] = "cancelled"
    /\ Len(checkpoint.session.argument_scores) = 1

\* The second run after k supersteps on its own.
RECURSIVE Alone(_, _)
Alone(k, limit) ==
    IF k = 0 THEN PeerInit ELSE SuperStep(Alone(k - 1, limit), limit)

\* The supersteps of a run of the given limit.
Steps(limit) == 3 * limit + 1

FirstRun == <<session, next_id, active, status, input, writes, sends,
              done_order, run, checkpoint, pending_writes>>

\* C17: two runs side by side are independent: under every interleaving
\* each ends in the state and checkpoint it reaches alone, each
\* checkpoint is the one its own run saved last, and no step of one run
\* changes the state or the checkpoint of the other, the second run going
\* from superstep to superstep as it does alone.
C17_Independent ==
    /\ [](/\ checkpoint.session = step_snapshot
          /\ checkpoint.next = active
          /\ run = "done" =>
                /\ session = UninterruptedRun(max_rounds)
                /\ checkpoint = SaveCheckpoint(session, {})
          /\ peer.run = "done" => peer = Alone(Steps(max_rounds), max_rounds))
    /\ [][/\ peer' # peer =>
                /\ FirstRun' = FirstRun
                /\ peer' = SuperStep(peer, max_rounds)
          /\ FirstRun' # FirstRun => peer' = peer]_vars

C17_Witness ==
    /\ run = "done"
    /\ peer.run = "done"
    /\ max_rounds = 2
    /\ session.verdict = "report with 6 tips"
    /\ peer.session.verdict = "report"
    /\ peer.session.topic # session.topic

Analysis == FanOut \cup {"fallacy_detector"}

\* C21: in the k-th pass of the loop every analysis task is given
\* round_number = k; argument_scores gains one entry per round, whose round
\* field is k, parsed score or not; a finished run has max_rounds entries
\* with round fields 1..max_rounds in order.
C21_ScoreRounds ==
    /\ \A n \in Analysis :
          status[n] \in {"running", "done"} => input[n].round_number = runs[n]
    /\ Len(session.argument_scores) = applied["argument_scorer"]
    /\ \A i \in DOMAIN session.argument_scores :
          session.argument_scores[i].round = i
    /\ run = "done" => Len(session.argument_scores) = max_rounds

\* C22: devil_advocate_args gains one entry per round: after the fold of
\* round k it has k entries, a finished run has max_rounds.
C22_CounterArguments ==
    /\ [](/\ Len(session.devil_advocate_args) = applied["devil_advocate"]
          /\ last_step = FanOut => Len(session.devil_advocate_args) = Round
          /\ run = "done" => Len(session.devil_advocate_args) = max_rounds)
    /\ [][LET before == Len(session.devil_advocate_args)
              after == Len(session'.devil_advocate_args)
          IN  /\ after \in {before, before + 1}
              /\ after = before + 1 <=> FoldsGroup]_vars

C22_Witness ==
    /\ last_step = FanOut
    /\ Round = 3
    /\ Len(session.devil_advocate_args) = 3
    /\ active = {"final_coach"}

\* C23: coaching_tips is empty until final_coach's update is applied, only
\* that one step writes it, and it never has more than 5 entries.
C23_CoachingTips ==
    /\ [](/\ applied["final_coach"] = 0 => session.coaching_tips = <<>>
          /\ Len(session.coaching_tips) <= 5)
    /\ [][session'.coaching_tips # session.coaching_tips =>
             (Folds("final_coach") /\ applied["final_coach"] = 0)]_vars

C23_Witness ==
    /\ applied["final_coach"] = 1
    /\ Len(session.coaching_tips) = 5
    /\ session.verdict = "report with 6 tips"

\* The fields no update of the superstep in progress names.
Untouched ==
    {f \in Fields : \A n \in Range(done_order) : f \notin DOMAIN writes[n]}

\* C24: a step leaves the fields absent from its updates as they were:
\* topic and user_position keep their creation values, round_number changes
\* only with intake or increment_round, verdict and coaching_tips only with
\* final_coach.
C24_Frame ==
    /\ [](session.topic = Topic /\ session.user_position = UserPosition)
    /\ [][/\ \A f \in Untouched : session'[f] = session[f]
          /\ session'.round_number # session.round_number =>
                (Folds("intake") \/ Folds("increment_round"))
          /\ (\/ session'.verdict # session.verdict
              \/ session'.coaching_tips # session.coaching_tips) =>
                Folds("final_coach")]_vars

C24_Witness ==
    /\ last_step = {"final_coach"}
    /\ Round = 2
    /\ session.topic = Topic
    /\ Len(session.coaching_tips) = 5
    /\ Len(session.logical_fallacies_found) = 2

\* The nodes an edge of n, unconditional or conditional, leads to.
Targets(n) ==
    Edges(n) \cup
    (IF n \in ConditionalSources
     THEN {BranchTarget(label) : label \in {"continue", "finalize"}} ELSE {})

RECURSIVE ReachableFrom(_, _)
ReachableFrom(S, k) ==
    IF k = 0 THEN S
    ELSE ReachableFrom(S \cup UNION {Targets(n) : n \in S}, k - 1)

\* C25: the graph has one entry node, intake, and one terminal node,
\* final_coach, which has no edge; all seven nodes are reachable from
\* intake; the nodes that carry the conditional edge have no unconditional
\* edge.
C25_GraphShape ==
    /\ applied["intake"] = 0 /\ run = "running" => active = {"intake"}
    /\ {n \in Nodes : Targets(n) = {}} = {"final_coach"}
    /\ ReachableFrom({"intake"}, Cardinality(Nodes)) = Nodes
    /\ \A n \in ConditionalSources : Edges(n) = {}
    /\ run = "done" => last_step = {"final_coach"}

C25_Witness ==
    /\ run = "done"
    /\ \A n \in Nodes : applied[n] >= 1
    /\ max_rounds = 2

JsonNodes == {"fallacy_detector", "argument_scorer"}

\* A response of node n that json.loads accepts.
WellFormed(n) == IF n = "fallacy_detector" THEN "[]" ELSE "{score}"

\* C26: a response that is not JSON does not fail fallacy_detector or
\* argument_scorer: the task returns its default update (no fallacy
\* report; a score card of total 0 for the round), and the run goes the
\* way it goes with a well-formed response.
C26_MalformedJson ==
    \A n \in JsonNodes :
        status[n] = "running" =>
            LET bad == NodeUpdate(n, input[n], "not json")
                good == NodeUpdate(n, input[n], WellFormed(n))
            IN  /\ "not json" \in Responses(n)
                /\ DOMAIN bad = DOMAIN good
                /\ Len(bad.dialogue_history) = 1
                /\ Triggers(n, input[n], bad, max_rounds, next_id) =
                      Triggers(n, input[n], good, max_rounds, next_id)
                /\ n = "fallacy_detector" => bad.logical_fallacies_found = <<>>
                /\ n = "argument_scorer" =>
                      /\ Len(bad.argument_scores) = 1
                      /\ bad.argument_scores[1].total = 0
                      /\ bad.argument_scores[1].round = input[n].round_number

C26_Witness ==
    /\ run = "done"
    /\ max_rounds = 2
    /\ session.logical_fallacies_found = <<>>
    /\ \A i \in DOMAIN session.argument_scores :
          session.argument_scores[i].total = 0
    /\ session.verdict = "report"

\* C27: no fan-out member writes round_number, so the should_continue
\* calls of a group give one answer: increment_round and final_coach are
\* never both scheduled.
C27_DecisionsAgree ==
    /\ \A n \in FanOut :
          status[n] = "done" =>
             /\ "round_number" \notin DOMAIN writes[n]
             /\ \A m \in FanOut : status[m] = "done" => sends[m] = sends[n]
    /\ Cardinality({should_continue(s, max_rounds) : s \in eval_inputs}) <= 1
    /\ ~(Successors \subseteq active)
    /\ ~(Successors \subseteq UNION {sends[n] : n \in Nodes})

C27_Witness ==
    /\ evals = 3
    /\ Cardinality(eval_inputs) = 3
    /\ \A n \in FanOut : status[n] = "done"
    /\ sends["argument_scorer"] = {"increment_round"}

\* C28: every node execution adds one message to dialogue_history: a
\* finished run of R rounds has 5R + 1 messages, R of them user messages,
\* the last one the final report.
C28_OneMessagePerNode ==
    LET h == session.dialogue_history
        Sum == applied["intake"] + applied["fallacy_detector"] +
               applied["devil_advocate"] + applied["socratic_questioner"] +
               applied["argument_scorer"] + applied["increment_round"] +
               applied["final_coach"]
    IN  /\ Len(h) = Sum
        /\ \A n \in Nodes :
              status[n] = "done" => Len(writes[n].dialogue_history) = 1
        /\ run = "done" =>
              /\ Len(h) = 5 * max_rounds + 1
              /\ Cardinality({i \in DOMAIN h : h[i].role = "human"}) = max_rounds
              /\ h[Len(h)].tag = "Final Report"
              /\ h[1].tag = "position"

C28_Witness ==
    /\ run = "done"
    /\ max_rounds = 3
    /\ Len(session.dialogue_history) = 16
    /\ session.dialogue_history[16].tag = "Final Report"

====
